---- MODULE Spec2Model ----
(***************************************************************************)
(* A model of asabya/swarm-blockstore: the archive assembler (tar.Stream), *)
(* the bee HTTP client (bee.Client) and the chunk store adapter            *)
(* (putergetter.PutGetter), together with the remote node they talk to.    *)
(***************************************************************************)
EXTENDS Naturals, Integers, Sequences, FiniteSets, TLC

VARIABLES
    ts,         \* tar.Stream: [buf, w], w the archive/tar Writer [err, nb, pad]
    tarLast,    \* the last Stream method called and what it returned
    tarRun,     \* "writing" | "ended" | "spoiled": only well-formed WriteItems, then End
    tarItems,   \* the items written so far in an unspoiled run
    tarAllOk,   \* every call of an unspoiled run returned nil
    tarEnded,   \* End has been called on the Stream
    tarOps,     \* number of Stream method calls made
    client,     \* bee.Client: [isProxy, stamp, redundancy, pin]
    call,       \* the last Client method called, with its arguments
    reqs,       \* the HTTP requests that call issued, in order
    ret,        \* what that call returned: [op, panic, err, val]
    node,       \* the remote node: [chunks, pins, tags]
    pg,         \* the PutGetter: [isNil, tag, batch, pin, redundancyLevel]
    pgLast,     \* the last PutGetter operation and what it did
    pgBound,    \* what NewPutGetter was given, and the tag CreateTag returned to it
    putOk,      \* the chunks a Put has stored: address = digest of data, Put returned nil
    pgOps,      \* number of operations made against the node
    gor         \* the goroutines sharing the Client: what each runs, and the
                \* accesses to Client fields it has still to make

vars == <<ts, tarLast, tarRun, tarItems, tarAllOk, tarEnded, tarOps,
          client, call, reqs, ret, node, pg, pgLast, pgBound, putOk, pgOps, gor>>
tarVars == <<ts, tarLast, tarRun, tarItems, tarAllOk, tarEnded, tarOps>>
clientVars == <<client, call, reqs, ret>>
netVars == <<node, pg, pgLast, pgBound, putOk, pgOps>>
concVars == <<gor>>

(* ------------------------------------------------------------------ *)
(* Bounds                                                             *)
(* ------------------------------------------------------------------ *)
MaxOps == 3      \* Stream method calls in one run
MaxSize == 1     \* largest declared CollectionItem.Size
MaxLen == 1      \* longest byte-stream / AppendFile argument
MaxNetOps == 4   \* operations made against the node in one run
MaxGoroutines == 2  \* goroutines calling the same Client

(* ------------------------------------------------------------------ *)
(* Go error values                                                    *)
(* ------------------------------------------------------------------ *)
Nil == [nil |-> TRUE, msg |-> ""]
Err(m) == [nil |-> FALSE, msg |-> m]

(* ------------------------------------------------------------------ *)
(* archive/tar Writer, as driven by tar.Stream                        *)
(* ------------------------------------------------------------------ *)
ErrWriteAfterClose == Err("archive/tar: write after close")
ErrWriteTooLong == Err("archive/tar: write too long")

\* strings.HasSuffix(name, "/"); names are sequences of characters
HasSuffixSlash(name) == Len(name) > 0 /\ name[Len(name)] = "/"

\* bytes of zero padding that follow `size` bytes of payload
blockPadding(size) == (512 - (size % 512)) % 512

\* what the Writer puts into the buffer: a 512-byte header block, payload
\* bytes, a run of n zero bytes of padding, a 512-byte zero block
HeaderBlock(name, size, flag) ==
    [k |-> "hdr", name |-> name, size |-> size, typeflag |-> flag, b |-> ""]
DataBytes(b) ==
    [i \in 1..Len(b) |-> [k |-> "data", name |-> <<>>, size |-> 0, typeflag |-> "", b |-> b[i]]]
PadBytes(n) ==
    IF n > 0 THEN <<[k |-> "pad", name |-> <<>>, size |-> n, typeflag |-> "", b |-> ""]>>
    ELSE <<>>
ZeroBlock == [k |-> "zero", name |-> <<>>, size |-> 0, typeflag |-> "", b |-> ""]

\* NewStream: an empty buffer and a fresh tar.Writer on it
NewStream == [buf |-> <<>>, w |-> [err |-> Nil, nb |-> 0, pad |-> 0]]

\* tar.Writer.Flush: fails while the current entry is short, else pads it
Flush(s) ==
    IF ~s.w.err.nil THEN [s |-> s, err |-> s.w.err]
    ELSE IF s.w.nb > 0
        THEN [s |-> s,
              err |-> Err("archive/tar: missed writing " \o ToString(s.w.nb) \o " bytes")]
    ELSE [s |-> [buf |-> s.buf \o PadBytes(s.w.pad), w |-> [s.w EXCEPT !.pad = 0]],
          err |-> Nil]

\* tar.Writer.WriteHeader for a header {Name, Mode, Size, ModTime}: the zero
\* Typeflag is promoted to TypeDir when Name ends in "/", else to TypeReg; a
\* header-only type (TypeDir) carries no payload whatever its Size says.
WriteHeader(s, hdr) ==
    LET f == Flush(s) IN
    IF ~f.err.nil THEN f
    ELSE LET flag == IF HasSuffixSlash(hdr.Name) THEN "TypeDir" ELSE "TypeReg"
             size == IF flag = "TypeDir" THEN 0 ELSE hdr.Size
         IN [s |-> [buf |-> Append(f.s.buf, HeaderBlock(hdr.Name, hdr.Size, flag)),
                    w |-> [err |-> Nil, nb |-> size, pad |-> blockPadding(size)]],
             err |-> Nil]

\* tar.Writer.Write: at most nb bytes go into the current entry
Write(s, b) ==
    IF ~s.w.err.nil THEN [s |-> s, err |-> s.w.err]
    ELSE LET overwrite == Len(b) > s.w.nb
             bb == IF overwrite THEN SubSeq(b, 1, s.w.nb) ELSE b
         IN [s |-> [buf |-> s.buf \o DataBytes(bb),
                    w |-> [s.w EXCEPT !.nb = s.w.nb - Len(bb)]],
             err |-> IF overwrite THEN ErrWriteTooLong ELSE Nil]

\* tar.Writer.Close: pads the last entry, writes the two-block trailer, and
\* makes every later action fail
CloseKeepsOpen(s) ==
    LET f == Flush(s) IN
    [s |-> [buf |-> IF f.err.nil THEN f.s.buf \o <<ZeroBlock, ZeroBlock>> ELSE f.s.buf,
            w |-> f.s.w],
     err |-> f.err]

Close(s) ==
    IF s.w.err = ErrWriteAfterClose THEN [s |-> s, err |-> Nil]
    ELSE IF ~s.w.err.nil THEN [s |-> s, err |-> s.w.err]
    ELSE LET f == Flush(s) IN
         [s |-> [buf |-> IF f.err.nil THEN f.s.buf \o <<ZeroBlock, ZeroBlock>> ELSE f.s.buf,
                 w |-> [f.s.w EXCEPT !.err = ErrWriteAfterClose]],
          err |-> f.err]

(* ------------------------------------------------------------------ *)
(* tar.Stream                                                         *)
(* ------------------------------------------------------------------ *)
Bytes == {"x"}
SeqsUpTo(S, n) == UNION {[1..m -> S] : m \in 0..n}
Paths == {<<"f">>, <<"d", "/">>}

\* io.ReadCloser: yields `data`, then io.EOF or (fails) a read error
NilFile == [isNil |-> TRUE, data |-> <<>>, fails |-> FALSE]
Files == {NilFile} \cup [isNil : {FALSE}, data : SeqsUpTo(Bytes, MaxLen), fails : BOOLEAN]
CollectionItems == [Path : Paths, Size : 0..MaxSize, File : Files]

BeginFile(s, item) == WriteHeader(s, [Name |-> item.Path, Size |-> item.Size])

AppendFile(s, data) == Write(s, data)

EndFile(s) == [s |-> s, err |-> Nil]

End(s) == Close(s)

Output(s) == s.buf

\* io.CopyBuffer(ts.GetWriter(), item.File, buf): the bytes the reader yields
\* are written in order (chunk by chunk, which leaves the Writer where one
\* Write of them all leaves it); a write error ends the copy before the
\* reader's own error is seen.
CopyBuffer(s, file) ==
    LET w == IF Len(file.data) > 0 THEN Write(s, file.data) ELSE [s |-> s, err |-> Nil] IN
    IF ~w.err.nil THEN w
    ELSE IF file.fails THEN [s |-> w.s, err |-> Err("read error")]
    ELSE w

WriteItemNoCopy(s, item) ==
    LET b == BeginFile(s, item) IN
    IF ~b.err.nil THEN [s |-> b.s, err |-> b.err, closed |-> FALSE]
    ELSE IF ~item.File.isNil
        THEN [s |-> b.s, err |-> Nil, closed |-> TRUE]
    ELSE [s |-> b.s, err |-> Err("invalid collection item"), closed |-> FALSE]

WriteItem(s, item) ==
    LET b == BeginFile(s, item) IN
    IF ~b.err.nil THEN [s |-> b.s, err |-> b.err, closed |-> FALSE]
    ELSE IF ~item.File.isNil
        THEN LET c == CopyBuffer(b.s, item.File) IN
             IF ~c.err.nil THEN [s |-> c.s, err |-> c.err, closed |-> TRUE]
             ELSE [s |-> EndFile(c.s).s, err |-> EndFile(c.s).err, closed |-> TRUE]
    ELSE [s |-> b.s, err |-> Err("invalid collection item"), closed |-> FALSE]

\* archive/tar Reader over the bytes of Output(): the members in order, each
\* with its name and the number of payload bytes it carries; ok when the
\* archive is well formed and ends with the two-block trailer
RECURSIVE ReadFrom(_, _, _)
ReadFrom(b, i, acc) ==
    IF i > Len(b) THEN [ok |-> FALSE, members |-> acc]
    ELSE IF b[i].k = "zero"
        THEN [ok |-> i + 1 <= Len(b) /\ b[i + 1].k = "zero", members |-> acc]
    ELSE IF b[i].k # "hdr" THEN [ok |-> FALSE, members |-> acc]
    ELSE LET n == IF b[i].typeflag = "TypeDir" THEN 0 ELSE b[i].size
             p == blockPadding(n)
             j == i + 1 + n + (IF p > 0 THEN 1 ELSE 0)
         IN IF /\ j - 1 <= Len(b)
               /\ \A q \in (i + 1)..(i + n) : b[q].k = "data"
               /\ (p > 0 => b[i + n + 1].k = "pad" /\ b[i + n + 1].size = p)
            THEN ReadFrom(b, j, Append(acc, [Path |-> b[i].name, Size |-> n]))
            ELSE [ok |-> FALSE, members |-> acc]

ReadArchive(b) == ReadFrom(b, 1, <<>>)

\* an item whose stream is present and yields exactly Size bytes, then EOF
WellFormed(item) ==
    ~item.File.isNil /\ ~item.File.fails /\ Len(item.File.data) = item.Size

\* what a Stream method call did: its error, whether the item carried a stream
\* and whether that stream was closed, whether End had been called before
\* the call, and whether the call changed the bytes of Output()
TarLast(op, e, given, closed, before, after) ==
    [op |-> op, err |-> e, fileGiven |-> given, fileClosed |-> closed,
     afterEnd |-> tarEnded,
     bufChanged |-> (Output(after) # Output(before))]

TarInit ==
    /\ ts = NewStream
    /\ tarEnded = FALSE
    /\ tarLast = [op |-> "NewStream", err |-> Nil, fileGiven |-> FALSE, fileClosed |-> FALSE,
                  afterEnd |-> FALSE, bufChanged |-> FALSE]
    /\ tarRun = "writing"
    /\ tarItems = <<>>
    /\ tarAllOk = TRUE
    /\ tarOps = 0

Spoil ==
    /\ tarRun' = "spoiled"
    /\ tarItems' = <<>>
    /\ tarAllOk' = TRUE

TarBeginFile ==
    /\ tarOps < MaxOps
    /\ \E item \in {it \in CollectionItems : it.File = NilFile} :
         LET r == BeginFile(ts, item) IN
         /\ ts' = r.s
         /\ tarLast' = TarLast("BeginFile", r.err, FALSE, FALSE, ts, r.s)
    /\ Spoil
    /\ UNCHANGED tarEnded
    /\ tarOps' = tarOps + 1
    /\ UNCHANGED <<clientVars, netVars, concVars>>

TarAppendFile ==
    /\ tarOps < MaxOps
    /\ \E data \in SeqsUpTo(Bytes, MaxLen) :
         LET r == AppendFile(ts, data) IN
         /\ ts' = r.s
         /\ tarLast' = TarLast("AppendFile", r.err, FALSE, FALSE, ts, r.s)
    /\ Spoil
    /\ UNCHANGED tarEnded
    /\ tarOps' = tarOps + 1
    /\ UNCHANGED <<clientVars, netVars, concVars>>

TarEndFile ==
    /\ tarOps < MaxOps
    /\ ts' = EndFile(ts).s
    /\ tarLast' = TarLast("EndFile", EndFile(ts).err, FALSE, FALSE, ts, EndFile(ts).s)
    /\ Spoil
    /\ UNCHANGED tarEnded
    /\ tarOps' = tarOps + 1
    /\ UNCHANGED <<clientVars, netVars, concVars>>

TarEnd ==
    /\ tarOps < MaxOps
    /\ ts' = End(ts).s
    /\ tarLast' = TarLast("End", End(ts).err, FALSE, FALSE, ts, End(ts).s)
    /\ IF tarRun = "writing"
       THEN /\ tarRun' = "ended"
            /\ tarItems' = tarItems
            /\ tarAllOk' = (tarAllOk /\ End(ts).err.nil)
       ELSE Spoil
    /\ tarEnded' = TRUE
    /\ tarOps' = tarOps + 1
    /\ UNCHANGED <<clientVars, netVars, concVars>>

TarWriteItem ==
    /\ tarOps < MaxOps
    /\ \E item \in CollectionItems :
         LET r == WriteItem(ts, item) IN
         /\ ts' = r.s
         /\ tarLast' = TarLast("WriteItem", r.err, ~item.File.isNil, r.closed, ts, r.s)
         /\ IF tarRun = "writing" /\ WellFormed(item)
            THEN /\ tarRun' = "writing"
                 /\ tarItems' = Append(tarItems, [Path |-> item.Path, Size |-> item.Size])
                 /\ tarAllOk' = (tarAllOk /\ r.err.nil)
            ELSE Spoil
    /\ UNCHANGED tarEnded
    /\ tarOps' = tarOps + 1
    /\ UNCHANGED <<clientVars, netVars, concVars>>

TarNext ==
    \/ TarBeginFile
    \/ TarAppendFile
    \/ TarEndFile
    \/ TarEnd
    \/ TarWriteItem

(* ------------------------------------------------------------------ *)
(* swarm.Address and its hex form                                     *)
(* ------------------------------------------------------------------ *)
\* an Address is a sequence of bytes; ZeroAddress has none, EmptyAddress is
\* 32 zero bytes
ZeroAddress == <<>>
EmptyAddress == [i \in 1..32 |-> 0]
AddrA == [i \in 1..32 |-> 170]
AddrB == [i \in 1..32 |-> 187]
Addresses == {ZeroAddress, EmptyAddress, AddrA, AddrB}

IsZero(a) == a = ZeroAddress
IsEmpty(a) == a = EmptyAddress

HexByte(b) == CASE b = 0 -> "00" [] b = 170 -> "aa" [] b = 187 -> "bb"

\* hex.EncodeToString of a byte sequence
RECURSIVE EncodeToString(_)
EncodeToString(a) == IF a = <<>> THEN "" ELSE HexByte(Head(a)) \o EncodeToString(Tail(a))

\* the hex form of every address of the model, computed once
HexOf == [a \in Addresses |-> EncodeToString(a)]

\* Address.String()
AddrString(a) == HexOf[a]

\* swarm.ParseHexAddress: hex.DecodeString over the strings that are the hex
\* form of some address
IsHex(s) == \E a \in Addresses : AddrString(a) = s
ParseHexAddress(s) == CHOOSE a \in Addresses : AddrString(a) = s

(* ------------------------------------------------------------------ *)
(* HTTP requests, responses and JSON bodies                           *)
(* ------------------------------------------------------------------ *)
url == "http://bee"
healthUrl == "/health"
chunkUploadDownloadUrl == "/chunks"
bytesUploadDownloadUrl == "/bytes"
bzzUrl == "/bzz"
tagsUrl == "/tags"
pinsUrl == "/pins/"
feedsUrl == "/feeds/"
swarmPinHeader == "Swarm-Pin"
swarmEncryptHeader == "Swarm-Encrypt"
SwarmPostageBatchId == "Swarm-Postage-Batch-Id"
swarmDeferredUploadHeader == "Swarm-Deferred-Upload"
swarmErasureCodingHeader == "Swarm-Redundancy-Level"
swarmTagHeader == "Swarm-Tag"
contentTypeHeader == "Content-Type"

\* http.Header as a set of <<name, value>> pairs, one value per name
HeaderSet(h, k, v) == {p \in h : p[1] # k} \cup {<<k, v>>}
HeaderHas(h, k) == \E p \in h : p[1] = k
HeaderGet(h, k) == IF HeaderHas(h, k) THEN (CHOOSE p \in h : p[1] = k)[2] ELSE ""

\* fmt.Sprintf("%t", b) and fmt.Sprintf("%d", n)
FormatBool(b) == IF b THEN "true" ELSE "false"
FormatInt(n) == ToString(n)

Request(method, path, header, body) ==
    [method |-> method, url |-> url \o path, header |-> header, body |-> body]

\* a JSON value as the decoder sees it: invalid (not JSON), null, array, or
\* an object with typed fields
JField(key, type, str, num) == [key |-> key, type |-> type, str |-> str, num |-> num]
Body(text, json, fields) == [text |-> text, json |-> json, fields |-> fields]
JHas(body, key) == \E f \in body.fields : f.key = key
JGet(body, key) == CHOOSE f \in body.fields : f.key = key

BodyNull == Body("null", "null", {})
BodyText == Body("Not Found", "invalid", {})
BodyArray == Body("[]", "array", {})
BodyError ==
    Body("{\"code\":404,\"message\":\"Not Found\"}", "object",
         {JField("code", "number", "", 404), JField("message", "string", "Not Found", 0)})
BodyRef ==
    Body("{\"reference\":\"" \o AddrString(AddrA) \o "\"}", "object",
         {JField("reference", "string", AddrString(AddrA), 0)})
BodyBadRef ==
    Body("{\"reference\":\"zz\"}", "object", {JField("reference", "string", "zz", 0)})
BodyTag ==
    Body("{\"uid\":7,\"total\":3,\"processed\":2,\"synced\":1}", "object",
         {JField("uid", "number", "", 7), JField("total", "number", "", 3),
          JField("processed", "number", "", 2), JField("synced", "number", "", 1)})
Bodies == {BodyNull, BodyText, BodyArray, BodyError, BodyRef, BodyBadRef, BodyTag}

BodyBee == Body("Ethereum Swarm Bee\n", "invalid", {})
BodyOK == Body("OK", "invalid", {})
ProbeBodies == {BodyBee, BodyOK, BodyText}

Statuses == {200, 201, 404, 500}

\* what s.Do(req) and reading the body give: a transport failure (refused,
\* timed out, cancelled), or a status with a body whose read may fail
NoResponse ==
    [transport |-> FALSE, status |-> 0, body |-> BodyText, readErr |-> FALSE, header |-> {}]
ResponsesOf(bodies, headers) ==
    {NoResponse} \cup
    [transport : {TRUE}, status : Statuses, body : bodies, readErr : BOOLEAN,
     header : headers]
Responses == ResponsesOf(Bodies, {{}})

ErrTransport == Err("transport error")
ErrJSON == Err("json: cannot unmarshal")

\* a string or number field of the right JSON type, or absent
FieldOK(body, key, type) == JHas(body, key) => JGet(body, key).type = type
StrField(body, key) == IF JHas(body, key) THEN JGet(body, key).str ELSE ""
NumField(body, key) == IF JHas(body, key) THEN JGet(body, key).num ELSE 0

\* json.Unmarshal(data, &beeErr) with beeErr a nil *beeError: JSON null
\* decodes without error and leaves the pointer nil
UnmarshalBeeErrorPtr(body) ==
    IF body.json = "null" THEN [err |-> FALSE, isNil |-> TRUE, Message |-> ""]
    ELSE IF body.json = "object" /\ FieldOK(body, "code", "number")
                                /\ FieldOK(body, "message", "string")
        THEN [err |-> FALSE, isNil |-> FALSE, Message |-> StrField(body, "message")]
    ELSE [err |-> TRUE, isNil |-> TRUE, Message |-> ""]

\* Address.UnmarshalJSON through a `reference` field
RefOK(body) ==
    JHas(body, "reference") =>
        JGet(body, "reference").type = "string" /\ IsHex(JGet(body, "reference").str)
RefOf(body) ==
    IF JHas(body, "reference") THEN ParseHexAddress(JGet(body, "reference").str)
    ELSE ZeroAddress

\* json.Unmarshal(data, &addrResp) with addrResp a nil *chunkAddressResponse
UnmarshalChunkAddressResponsePtr(body) ==
    IF body.json = "null" THEN [err |-> FALSE, isNil |-> TRUE, Reference |-> ZeroAddress]
    ELSE IF body.json = "object" /\ RefOK(body)
        THEN [err |-> FALSE, isNil |-> FALSE, Reference |-> RefOf(body)]
    ELSE [err |-> TRUE, isNil |-> TRUE, Reference |-> ZeroAddress]

\* json.Unmarshal(data, &resp) with resp a bytesPostResponse value: JSON null
\* leaves the zero value
UnmarshalBytesPostResponse(body) ==
    IF body.json = "null" THEN [err |-> FALSE, Reference |-> ZeroAddress]
    ELSE IF body.json = "object" /\ RefOK(body)
        THEN [err |-> FALSE, Reference |-> RefOf(body)]
    ELSE [err |-> TRUE, Reference |-> ZeroAddress]

\* json.Unmarshal(data, &resp) with resp a tagPostResponse value
UnmarshalTagPostResponse(body) ==
    IF body.json = "null"
        THEN [err |-> FALSE, UID |-> 0, Total |-> 0, Processed |-> 0, Synced |-> 0]
    ELSE IF body.json = "object" /\ FieldOK(body, "uid", "number")
                                /\ FieldOK(body, "total", "number")
                                /\ FieldOK(body, "processed", "number")
                                /\ FieldOK(body, "synced", "number")
        THEN [err |-> FALSE, UID |-> NumField(body, "uid"), Total |-> NumField(body, "total"),
              Processed |-> NumField(body, "processed"), Synced |-> NumField(body, "synced")]
    ELSE [err |-> TRUE, UID |-> 0, Total |-> 0, Processed |-> 0, Synced |-> 0]

(* ------------------------------------------------------------------ *)
(* bee.Client                                                         *)
(* ------------------------------------------------------------------ *)
\* what a Client method did: the requests it issued and what it returned,
\* or that it aborted with a nil-pointer dereference
Out(rq, val, e) == [reqs |-> rq, ret |-> [panic |-> FALSE, err |-> e, val |-> val]]
Panic(rq) == [reqs |-> rq, ret |-> [panic |-> TRUE, err |-> Nil, val |-> <<>>]]

\* NewBeeClient(apiUrl, opts...) with any of WithPinning, WithStamp,
\* WithRedundancy
NewBeeClient(stamp, redundancy, pin) ==
    [isProxy |-> FALSE, stamp |-> stamp, redundancy |-> redundancy, pin |-> pin]

\* the non-success block shared by the methods: decode a *beeError, fall back
\* to the raw body, else dereference the decoded pointer
BeeErrorOut(rq, zero, body) ==
    LET d == UnmarshalBeeErrorPtr(body) IN
    IF d.err THEN Out(rq, zero, Err(body.text))
    ELSE IF d.isNil THEN Panic(rq)
    ELSE Out(rq, zero, Err(d.Message))

checkBee(resp) ==
    IF ~resp.transport THEN [data |-> "", err |-> ErrTransport]
    ELSE IF resp.readErr THEN [data |-> "", err |-> Err("read error")]
    ELSE [data |-> resp.body.text, err |-> Nil]

\* CheckConnection: the root probe, then the /health probe; gives the new
\* Client too
CheckConnection(c, r1, r2) ==
    LET root == Request("GET", "", {}, "")
        health == Request("GET", healthUrl, {}, "")
        d1 == checkBee(r1)
        d2 == checkBee(r2)
    IN IF d1.data = "Ethereum Swarm Bee\n"
           THEN [c |-> c, out |-> Out(<<root>>, TRUE, Nil)]
       ELSE IF ~d2.err.nil
           THEN [c |-> c, out |-> Out(<<root, health>>, FALSE, Nil)]
       ELSE [c |-> [c EXCEPT !.isProxy = (d2.data = "OK")],
             out |-> Out(<<root, health>>, d2.data = "OK", Nil)]

socResource(owner, id, sig) == "/soc/" \o owner \o "/" \o id \o "?sig=" \o sig

UploadSOC(c, owner, id, signature, stamp, redundancyLevel, pin, data, resp) ==
    LET stamp1 == IF stamp = "" THEN c.stamp ELSE stamp
        red1 == IF redundancyLevel = "" THEN c.redundancy ELSE redundancyLevel
        h1 == HeaderSet(HeaderSet(HeaderSet(HeaderSet({},
                  SwarmPostageBatchId, stamp1),
                  contentTypeHeader, "application/octet-stream"),
                  swarmDeferredUploadHeader, "true"),
                  swarmErasureCodingHeader, red1)
        pin1 == IF c.pin THEN c.pin ELSE pin
        h2 == IF pin1 THEN HeaderSet(h1, swarmPinHeader, "true") ELSE h1
        rq == <<Request("POST", socResource(owner, id, signature), h2, data)>>
    IN IF ~resp.transport THEN Out(rq, ZeroAddress, ErrTransport)
       ELSE IF resp.readErr THEN Out(rq, ZeroAddress, Err("error uploading data"))
       ELSE IF resp.status # 201 THEN BeeErrorOut(rq, ZeroAddress, resp.body)
       ELSE LET d == UnmarshalChunkAddressResponsePtr(resp.body) IN
            IF d.err THEN Out(rq, ZeroAddress, ErrJSON)
            ELSE IF d.isNil THEN Panic(rq)
            ELSE Out(rq, d.Reference, Nil)

UploadChunk(c, tag, ch, stamp, redundancyLevel, pin, resp) ==
    LET stamp1 == IF stamp = "" THEN c.stamp ELSE stamp
        red1 == IF redundancyLevel = "" THEN c.redundancy ELSE redundancyLevel
        h1 == HeaderSet(HeaderSet(HeaderSet(HeaderSet(HeaderSet({},
                  contentTypeHeader, "application/octet-stream"),
                  SwarmPostageBatchId, stamp1),
                  swarmDeferredUploadHeader, "true"),
                  swarmErasureCodingHeader, red1),
                  swarmTagHeader, FormatInt(tag))
        pin1 == IF c.pin THEN c.pin ELSE pin
        h2 == IF pin1 THEN HeaderSet(h1, swarmPinHeader, "true") ELSE h1
        rq == <<Request("POST", chunkUploadDownloadUrl, h2, ch.data)>>
    IN IF ~resp.transport THEN Out(rq, ZeroAddress, ErrTransport)
       ELSE IF resp.readErr THEN Out(rq, ZeroAddress, Err("error uploading data"))
       ELSE IF resp.status # 201 THEN BeeErrorOut(rq, ZeroAddress, resp.body)
       ELSE LET d == UnmarshalChunkAddressResponsePtr(resp.body) IN
            IF d.err THEN Out(rq, ZeroAddress, ErrJSON)
            ELSE IF d.isNil THEN Panic(rq)
            ELSE Out(rq, d.Reference, Nil)

\* the chunk swarm.NewChunk(address, chunkData)
NewChunk(address, data) == [address |-> address, data |-> data]
NoChunk == [address |-> ZeroAddress, data |-> ""]

\* a DownloadChunk that hands back the chunk without the bytes it read
DownloadChunkNoBody(c, address, resp) ==
    LET rq == <<Request("GET", chunkUploadDownloadUrl \o "/" \o AddrString(address), {}, "")>>
    IN IF ~resp.transport THEN Out(rq, NoChunk, ErrTransport)
       ELSE IF resp.status # 200 THEN Out(rq, NoChunk, Err("error downloading data"))
       ELSE Out(rq, NewChunk(address, ""), Nil)

DownloadChunk(c, address, resp) ==
    LET rq == <<Request("GET", chunkUploadDownloadUrl \o "/" \o AddrString(address), {}, "")>>
    IN IF ~resp.transport THEN Out(rq, NoChunk, ErrTransport)
       ELSE IF resp.status # 200 THEN Out(rq, NoChunk, Err("error downloading data"))
       ELSE IF resp.readErr THEN Out(rq, NoChunk, Err("error downloading data"))
       ELSE Out(rq, NewChunk(address, resp.body.text), Nil)

UploadBlob(c, tag, stamp, redundancyLevel, pin, encrypt, data, resp) ==
    LET stamp1 == IF stamp = "" THEN c.stamp ELSE stamp
        red1 == IF redundancyLevel = "" THEN c.redundancy ELSE redundancyLevel
        h1 == HeaderSet(HeaderSet(HeaderSet(HeaderSet({},
                  swarmPinHeader, FormatBool(pin)),
                  swarmEncryptHeader, FormatBool(encrypt)),
                  contentTypeHeader, "application/octet-stream"),
                  swarmErasureCodingHeader, red1)
        h2 == IF tag > 0 THEN HeaderSet(h1, swarmTagHeader, FormatInt(tag)) ELSE h1
        h3 == HeaderSet(HeaderSet(h2, SwarmPostageBatchId, stamp1),
                  swarmDeferredUploadHeader, "true")
        rq == <<Request("POST", bytesUploadDownloadUrl, h3, data)>>
    IN IF ~resp.transport THEN Out(rq, ZeroAddress, ErrTransport)
       ELSE IF resp.readErr THEN Out(rq, ZeroAddress, Err("error uploading blob"))
       ELSE IF resp.status # 200 /\ resp.status # 201
           THEN BeeErrorOut(rq, ZeroAddress, resp.body)
       ELSE LET d == UnmarshalBytesPostResponse(resp.body) IN
            IF d.err THEN Out(rq, ZeroAddress, Err("error unmarshalling response"))
            ELSE Out(rq, d.Reference, Nil)

\* the (stream, status) pair DownloadBlob returns; the stream is the body
Blob(stream, status) == [stream |-> stream, status |-> status]

DownloadBlob(c, address, resp) ==
    LET rq == <<Request("GET", bytesUploadDownloadUrl \o "/" \o AddrString(address), {}, "")>>
    IN IF ~resp.transport THEN Out(rq, Blob("", 404), ErrTransport)
       ELSE IF resp.status # 200
           THEN IF resp.readErr
                THEN Out(rq, Blob("", resp.status), Err("error downloading blob"))
                ELSE BeeErrorOut(rq, Blob("", resp.status), resp.body)
       ELSE Out(rq, Blob(resp.body.text, resp.status), Nil)

UploadFileBzz(c, data, fileName, stamp, redundancyLevel, pin, resp) ==
    LET stamp1 == IF stamp = "" THEN c.stamp ELSE stamp
        red1 == IF redundancyLevel = "" THEN c.redundancy ELSE redundancyLevel
        h1 == HeaderSet(HeaderSet(HeaderSet(HeaderSet({},
                  swarmPinHeader, FormatBool(pin)),
                  SwarmPostageBatchId, stamp1),
                  contentTypeHeader, "application/json"),
                  swarmErasureCodingHeader, red1)
        rq == <<Request("POST", bzzUrl \o "?name=" \o fileName, h1, data)>>
    IN IF ~resp.transport THEN Out(rq, ZeroAddress, ErrTransport)
       ELSE IF resp.readErr THEN Out(rq, ZeroAddress, Err("error downloading bzz"))
       ELSE IF resp.status # 200 /\ resp.status # 201
           THEN BeeErrorOut(rq, ZeroAddress, resp.body)
       ELSE LET d == UnmarshalBytesPostResponse(resp.body) IN
            IF d.err THEN Out(rq, ZeroAddress, Err("error unmarshalling response"))
            ELSE Out(rq, d.Reference, Nil)

\* UploadBzz: the request body is the Stream's Output() buffer
UploadBzz(c, data, stamp, redundancyLevel, pin, resp) ==
    LET stamp1 == IF stamp = "" THEN c.stamp ELSE stamp
        red1 == IF redundancyLevel = "" THEN c.redundancy ELSE redundancyLevel
        h1 == HeaderSet(HeaderSet(HeaderSet(HeaderSet(HeaderSet({},
                  swarmPinHeader, FormatBool(pin)),
                  SwarmPostageBatchId, stamp1),
                  "Content-Type", "application/x-tar"),
                  "Swarm-Collection", "true"),
                  swarmErasureCodingHeader, red1)
        rq == <<Request("POST", bzzUrl, h1, Output(data))>>
    IN IF ~resp.transport THEN Out(rq, ZeroAddress, ErrTransport)
       ELSE IF resp.readErr THEN Out(rq, ZeroAddress, Err("error downloading bzz"))
       ELSE IF resp.status # 200 /\ resp.status # 201
           THEN BeeErrorOut(rq, ZeroAddress, resp.body)
       ELSE LET d == UnmarshalBytesPostResponse(resp.body) IN
            IF d.err THEN Out(rq, ZeroAddress, Err("error unmarshalling response"))
            ELSE Out(rq, d.Reference, Nil)

DownloadBzz(c, address, resp) ==
    LET rq == <<Request("GET", bzzUrl \o "/" \o AddrString(address), {}, "")>>
    IN IF ~resp.transport THEN Out(rq, Blob("", 404), ErrTransport)
       ELSE IF resp.readErr THEN Out(rq, Blob("", resp.status), Err("error downloading bzz"))
       ELSE IF resp.status # 200 THEN BeeErrorOut(rq, Blob("", resp.status), resp.body)
       ELSE Out(rq, Blob(resp.body.text, resp.status), Nil)

\* strconv.ParseUint(s, 10, 64) over the decimal strings of small numbers
IsUint(s) == \E n \in 0..9 : ToString(n) = s
ParseUint(s) == CHOOSE n \in 0..9 : ToString(n) = s

\* filepath.Join of a clean path and one plain name
PathJoin(dir, name) == IF name = "" THEN dir ELSE dir \o "/" \o name

\* the (stream, contentLength) pair DownloadFileBzz returns
File(stream, len) == [stream |-> stream, len |-> len]

DownloadFileBzz(c, address, filename, resp) ==
    LET rq == <<Request("GET", PathJoin(bzzUrl \o "/" \o AddrString(address), filename), {}, "")>>
        cl == HeaderGet(resp.header, "Content-Length")
    IN IF ~resp.transport THEN Out(rq, File("", 0), ErrTransport)
       ELSE IF resp.status # 200
           THEN IF resp.readErr THEN Out(rq, File("", 0), Err("error downloading bzz"))
                ELSE BeeErrorOut(rq, File("", 0), resp.body)
       ELSE IF ~IsUint(cl) THEN Out(rq, File("", 0), Err("strconv.ParseUint: invalid syntax"))
       ELSE Out(rq, File(resp.body.text, ParseUint(cl)), Nil)

\* a DeleteReference that sends its request again when the transport fails
DeleteReferenceRetries(c, address, resp) ==
    LET rq == <<Request("DELETE", pinsUrl \o AddrString(address), {}, "")>>
    IN IF ~resp.transport THEN Out(rq \o rq, <<>>, ErrTransport)
       ELSE IF resp.status # 200 /\ resp.status # 404
           THEN IF resp.readErr THEN Out(rq, <<>>, Err("read error"))
                ELSE Out(rq, <<>>, Err("failed to unpin reference : " \o resp.body.text))
       ELSE Out(rq, <<>>, Nil)

\* a DeleteReference that accepts only 200
DeleteReferenceOnly200(c, address, resp) ==
    LET rq == <<Request("DELETE", pinsUrl \o AddrString(address), {}, "")>>
    IN IF ~resp.transport THEN Out(rq, <<>>, ErrTransport)
       ELSE IF resp.status # 200
           THEN Out(rq, <<>>, Err("failed to unpin reference : " \o resp.body.text))
       ELSE Out(rq, <<>>, Nil)

DeleteReference(c, address, resp) ==
    LET rq == <<Request("DELETE", pinsUrl \o AddrString(address), {}, "")>>
    IN IF ~resp.transport THEN Out(rq, <<>>, ErrTransport)
       ELSE IF resp.status # 200 /\ resp.status # 404
           THEN IF resp.readErr THEN Out(rq, <<>>, Err("read error"))
                ELSE Out(rq, <<>>, Err("failed to unpin reference : " \o resp.body.text))
       ELSE Out(rq, <<>>, Nil)

\* json.Marshal(&tagPostRequest{Address: addrString})
MarshalTagPostRequest(addrString) == "{\"address\":\"" \o addrString \o "\"}"

\* CreateTag without the gateway-proxy short cut
CreateTagAlwaysAsks(c, address, resp) ==
    LET data == IF ~IsZero(address) /\ ~IsEmpty(address)
                THEN MarshalTagPostRequest(AddrString(address)) ELSE ""
        rq == <<Request("POST", tagsUrl, {}, data)>>
    IN IF ~resp.transport THEN Out(rq, 0, ErrTransport)
       ELSE IF resp.readErr THEN Out(rq, 0, Err("error create tag"))
       ELSE IF resp.status # 200 /\ resp.status # 201
           THEN BeeErrorOut(rq, 0, resp.body)
       ELSE LET d == UnmarshalTagPostResponse(resp.body) IN
            IF d.err THEN Out(rq, 0, Err("error unmarshalling response"))
            ELSE Out(rq, d.UID, Nil)

CreateTag(c, address, resp) ==
    IF c.isProxy THEN Out(<<>>, 0, Nil)
    ELSE LET data == IF ~IsZero(address) /\ ~IsEmpty(address)
                     THEN MarshalTagPostRequest(AddrString(address)) ELSE ""
             rq == <<Request("POST", tagsUrl, {}, data)>>
         IN IF ~resp.transport THEN Out(rq, 0, ErrTransport)
            ELSE IF resp.readErr THEN Out(rq, 0, Err("error create tag"))
            ELSE IF resp.status # 200 /\ resp.status # 201
                THEN BeeErrorOut(rq, 0, resp.body)
            ELSE LET d == UnmarshalTagPostResponse(resp.body) IN
                 IF d.err THEN Out(rq, 0, Err("error unmarshalling response"))
                 ELSE Out(rq, d.UID, Nil)

\* a CreateFeedManifest that sends the stamp it was given, empty or not
CreateFeedManifestNoDefault(c, owner, topic, stamp, pin, resp) ==
    LET h1 == HeaderSet({}, SwarmPostageBatchId, stamp)
        pin1 == IF c.pin THEN c.pin ELSE pin
        h2 == IF pin1 THEN HeaderSet(h1, swarmPinHeader, "true") ELSE h1
        rq == <<Request("POST", feedsUrl \o owner \o "/" \o topic, h2, "")>>
    IN IF ~resp.transport THEN Out(rq, ZeroAddress, ErrTransport)
       ELSE IF resp.readErr THEN Out(rq, ZeroAddress, Err("error create feed manifest"))
       ELSE IF resp.status # 200 /\ resp.status # 201
           THEN BeeErrorOut(rq, ZeroAddress, resp.body)
       ELSE LET d == UnmarshalBytesPostResponse(resp.body) IN
            IF d.err THEN Out(rq, ZeroAddress, Err("error unmarshalling response"))
            ELSE Out(rq, d.Reference, Nil)

CreateFeedManifest(c, owner, topic, stamp, pin, resp) ==
    LET stamp1 == IF stamp = "" THEN c.stamp ELSE stamp
        h1 == HeaderSet({}, SwarmPostageBatchId, stamp1)
        pin1 == IF c.pin THEN c.pin ELSE pin
        h2 == IF pin1 THEN HeaderSet(h1, swarmPinHeader, "true") ELSE h1
        rq == <<Request("POST", feedsUrl \o owner \o "/" \o topic, h2, "")>>
    IN IF ~resp.transport THEN Out(rq, ZeroAddress, ErrTransport)
       ELSE IF resp.readErr THEN Out(rq, ZeroAddress, Err("error create feed manifest"))
       ELSE IF resp.status # 200 /\ resp.status # 201
           THEN BeeErrorOut(rq, ZeroAddress, resp.body)
       ELSE LET d == UnmarshalBytesPostResponse(resp.body) IN
            IF d.err THEN Out(rq, ZeroAddress, Err("error unmarshalling response"))
            ELSE Out(rq, d.Reference, Nil)

\* the (address, index, nextIndex) triple GetLatestFeedManifest returns
Feed(address, index, nextIndex) ==
    [address |-> address, index |-> index, nextIndex |-> nextIndex]

GetLatestFeedManifest(c, owner, topic, resp) ==
    LET rq == <<Request("GET", feedsUrl \o owner \o "/" \o topic, {}, "")>>
        zero == Feed(ZeroAddress, "", "")
    IN IF ~resp.transport THEN Out(rq, zero, ErrTransport)
       ELSE IF resp.readErr THEN Out(rq, zero, Err("error getting latest feed manifest"))
       ELSE IF resp.status # 200 /\ resp.status # 201
           THEN BeeErrorOut(rq, zero, resp.body)
       ELSE LET d == UnmarshalBytesPostResponse(resp.body) IN
            IF d.err THEN Out(rq, zero, Err("error unmarshalling response"))
            ELSE Out(rq, Feed(d.Reference, HeaderGet(resp.header, "swarm-feed-index"),
                              HeaderGet(resp.header, "swarm-feed-index-next")), Nil)

\* the (total, processed, synced) triple GetTag returns
TagCounts(total, processed, synced) ==
    [total |-> total, processed |-> processed, synced |-> synced]

GetTag(c, tag, resp) ==
    IF c.isProxy THEN Out(<<>>, TagCounts(0, 0, 0), Nil)
    ELSE LET rq == <<Request("GET", tagsUrl \o "/" \o FormatInt(tag), {}, "")>>
             zero == TagCounts(0, 0, 0)
         IN IF ~resp.transport THEN Out(rq, zero, ErrTransport)
            ELSE IF resp.readErr THEN Out(rq, zero, Err("error getting tag"))
            ELSE IF resp.status # 200 /\ resp.status # 201
                THEN BeeErrorOut(rq, zero, resp.body)
            ELSE LET d == UnmarshalTagPostResponse(resp.body) IN
                 IF d.err THEN Out(rq, zero, Err("error unmarshalling response"))
                 ELSE Out(rq, TagCounts(d.Total, d.Processed, d.Synced), Nil)

(* ------------------------------------------------------------------ *)
(* Client calls against a node that may answer anything               *)
(* ------------------------------------------------------------------ *)
Stamps == {"", "s1"}
Redundancies == {"", "r1"}
Tags == {0, 7}
Datas == {"d1", "d2"}
LengthHeaders == {{}, {<<"Content-Length", "3">>}, {<<"Content-Length", "x">>}}
FeedHeaders == {{}, {<<"swarm-feed-index", "1">>, <<"swarm-feed-index-next", "2">>}}

\* a Client call leaves the Stream's bookkeeping, the node and the PutGetter alone
ClientFrame ==
    UNCHANGED <<tarLast, tarRun, tarItems, tarAllOk, tarEnded, tarOps, netVars, concVars>>

\* no call in progress: the caller holds no result
Idle == [op |-> "idle", args |-> <<>>]

ClientInit ==
    /\ \E stamp \in {"", "s0"}, redundancy \in {"", "r0"}, pin \in BOOLEAN :
         client = NewBeeClient(stamp, redundancy, pin)
    /\ call = Idle
    /\ reqs = <<>>
    /\ ret = [op |-> "idle", body |-> "none"] @@ Out(<<>>, <<>>, Nil).ret

\* the caller makes one call at a time: `call`, `reqs` and `ret` hold the call
\* it made and what came of it until it lets go of the result
\* the operations with `defer response.Body.Close()` after their s.Do(req)
\* (CheckConnection's is in checkBee); DownloadBlob and DownloadFileBzz have
\* no call of Close
ClosesBody ==
    {"CheckConnection", "UploadSOC", "UploadChunk", "DownloadChunk", "UploadBlob",
     "UploadFileBzz", "UploadBzz", "DownloadBzz", "DeleteReference", "CreateTag",
     "CreateFeedManifest", "GetLatestFeedManifest", "GetTag"}

\* whether s.Do gave the call a response
GotResponse(op, args, out) ==
    IF op = "CheckConnection" THEN args.answered
    ELSE out.reqs # <<>> /\ args.resp.transport

\* the response body when op returns: there is "none" without a response, it
\* is "closed" where a deferred Close has run (a panic runs it too), and
\* "open" where nothing closed it
BodyAtReturn(op, args, out) ==
    IF ~GotResponse(op, args, out) THEN "none"
    ELSE IF op \in ClosesBody THEN "closed"
    ELSE "open"

Returns(op, args, out) ==
    /\ call' = [op |-> op, args |-> args]
    /\ reqs' = out.reqs
    /\ ret' = [op |-> op, body |-> BodyAtReturn(op, args, out)] @@ out.ret

\* the caller lets go of the last result
ClDone ==
    /\ call # Idle
    /\ call' = Idle
    /\ reqs' = <<>>
    /\ ret' = [op |-> "idle", body |-> "none"] @@ Out(<<>>, <<>>, Nil).ret
    /\ UNCHANGED <<client, ts>>
    /\ ClientFrame

ClCheckConnection ==
    /\ call = Idle
    /\ \E r1, r2 \in ResponsesOf(ProbeBodies, {{}}) :
         LET r == CheckConnection(client, r1, r2) IN
         /\ client' = r.c
         /\ Returns("CheckConnection",
                    [was |-> client.isProxy,
                     answered |-> (r1.transport \/
                                   (r2.transport /\ checkBee(r1).data # "Ethereum Swarm Bee\n")),
                     banner |-> (checkBee(r1).data = "Ethereum Swarm Bee\n"),
                     healthErr |-> ~checkBee(r2).err.nil,
                     healthOK |-> (checkBee(r2).data = "OK")], r.out)
    /\ UNCHANGED ts
    /\ ClientFrame

ClUploadSOC ==
    /\ call = Idle
    /\ \E stamp \in Stamps, red \in Redundancies, pin \in BOOLEAN, resp \in Responses :
         Returns("UploadSOC",
                 [stamp |-> stamp, redundancyLevel |-> red, pin |-> pin, resp |-> resp],
                 UploadSOC(client, "owner", "id", "sig", stamp, red, pin, "d1", resp))
    /\ UNCHANGED <<client, ts>>
    /\ ClientFrame

ClUploadChunk ==
    /\ call = Idle
    /\ \E tag \in Tags, stamp \in Stamps, red \in Redundancies, pin \in BOOLEAN,
          resp \in Responses :
         Returns("UploadChunk",
                 [tag |-> tag, stamp |-> stamp, redundancyLevel |-> red, pin |-> pin,
                  resp |-> resp],
                 UploadChunk(client, tag, NewChunk(AddrA, "d1"), stamp, red, pin, resp))
    /\ UNCHANGED <<client, ts>>
    /\ ClientFrame

ClDownloadChunk ==
    /\ call = Idle
    /\ \E address \in {AddrA, AddrB}, resp \in Responses :
         Returns("DownloadChunk", [address |-> address, resp |-> resp],
                 DownloadChunk(client, address, resp))
    /\ UNCHANGED <<client, ts>>
    /\ ClientFrame

ClUploadBlob ==
    /\ call = Idle
    /\ \E tag \in Tags, stamp \in Stamps, red \in Redundancies, pin \in BOOLEAN,
          encrypt \in BOOLEAN, resp \in Responses :
         Returns("UploadBlob",
                 [tag |-> tag, stamp |-> stamp, redundancyLevel |-> red, pin |-> pin,
                  encrypt |-> encrypt, resp |-> resp],
                 UploadBlob(client, tag, stamp, red, pin, encrypt, "d1", resp))
    /\ UNCHANGED <<client, ts>>
    /\ ClientFrame

ClDownloadBlob ==
    /\ call = Idle
    /\ \E address \in {AddrA, AddrB}, resp \in Responses :
         Returns("DownloadBlob", [address |-> address, resp |-> resp],
                 DownloadBlob(client, address, resp))
    /\ UNCHANGED <<client, ts>>
    /\ ClientFrame

ClUploadFileBzz ==
    /\ call = Idle
    /\ \E stamp \in Stamps, red \in Redundancies, pin \in BOOLEAN, resp \in Responses :
         Returns("UploadFileBzz",
                 [stamp |-> stamp, redundancyLevel |-> red, pin |-> pin, resp |-> resp],
                 UploadFileBzz(client, "d1", "file", stamp, red, pin, resp))
    /\ UNCHANGED <<client, ts>>
    /\ ClientFrame

\* s.Do(req) in UploadBzz: the request body is the Stream's bytes.Buffer
\* itself, and the transport reads what it sends out of it. With the first
\* n blocks sent the buffer keeps the rest.
DrainKeeps(s, n) == s
Drain(s, n) == [s EXCEPT !.buf = SubSeq(@, n + 1, Len(@))]

\* how much of the body the transport has sent when Do returns: all of it
\* when the node has accepted the upload, any part of it when the exchange
\* failed or the node turned the request down
SentCounts(s, resp) ==
    IF resp.transport /\ resp.status \in {200, 201} THEN {Len(s.buf)} ELSE 0..Len(s.buf)

ClUploadBzz ==
    /\ call = Idle
    /\ \E stamp \in Stamps, red \in Redundancies, pin \in BOOLEAN, resp \in Responses :
         \E sent \in SentCounts(ts, resp) :
             /\ Returns("UploadBzz",
                        [stamp |-> stamp, redundancyLevel |-> red, pin |-> pin,
                         resp |-> resp, before |-> Output(ts), sent |-> sent],
                        UploadBzz(client, ts, stamp, red, pin, resp))
             /\ ts' = Drain(ts, sent)
    /\ UNCHANGED client
    /\ ClientFrame

ClDownloadBzz ==
    /\ call = Idle
    /\ \E address \in {AddrA, AddrB}, resp \in Responses :
         Returns("DownloadBzz", [address |-> address, resp |-> resp],
                 DownloadBzz(client, address, resp))
    /\ UNCHANGED <<client, ts>>
    /\ ClientFrame

ClDownloadFileBzz ==
    /\ call = Idle
    /\ \E address \in {AddrA}, resp \in ResponsesOf(Bodies, LengthHeaders) :
         Returns("DownloadFileBzz", [address |-> address, resp |-> resp],
                 DownloadFileBzz(client, address, "file", resp))
    /\ UNCHANGED <<client, ts>>
    /\ ClientFrame

ClDeleteReference ==
    /\ call = Idle
    /\ \E address \in {AddrA, AddrB}, resp \in Responses :
         Returns("DeleteReference", [address |-> address, resp |-> resp],
                 DeleteReference(client, address, resp))
    /\ UNCHANGED <<client, ts>>
    /\ ClientFrame

ClCreateTag ==
    /\ call = Idle
    /\ \E address \in {ZeroAddress, EmptyAddress, AddrA}, resp \in Responses :
         Returns("CreateTag", [address |-> address, resp |-> resp],
                 CreateTag(client, address, resp))
    /\ UNCHANGED <<client, ts>>
    /\ ClientFrame

ClCreateFeedManifest ==
    /\ call = Idle
    /\ \E stamp \in Stamps, pin \in BOOLEAN, resp \in Responses :
         Returns("CreateFeedManifest", [stamp |-> stamp, pin |-> pin, resp |-> resp],
                 CreateFeedManifest(client, "owner", "topic", stamp, pin, resp))
    /\ UNCHANGED <<client, ts>>
    /\ ClientFrame

ClGetLatestFeedManifest ==
    /\ call = Idle
    /\ \E resp \in ResponsesOf(Bodies, FeedHeaders) :
         Returns("GetLatestFeedManifest", [resp |-> resp],
                 GetLatestFeedManifest(client, "owner", "topic", resp))
    /\ UNCHANGED <<client, ts>>
    /\ ClientFrame

ClGetTag ==
    /\ call = Idle
    /\ \E tag \in Tags, resp \in Responses :
         Returns("GetTag", [tag |-> tag, resp |-> resp], GetTag(client, tag, resp))
    /\ UNCHANGED <<client, ts>>
    /\ ClientFrame

ClientNext ==
    \/ ClCheckConnection
    \/ ClUploadSOC
    \/ ClUploadChunk
    \/ ClDownloadChunk
    \/ ClUploadBlob
    \/ ClDownloadBlob
    \/ ClUploadFileBzz
    \/ ClUploadBzz
    \/ ClDownloadBzz
    \/ ClDownloadFileBzz
    \/ ClDeleteReference
    \/ ClCreateTag
    \/ ClCreateFeedManifest
    \/ ClGetLatestFeedManifest
    \/ ClGetTag
    \/ ClDone

(* ------------------------------------------------------------------ *)
(* putergetter.PutGetter                                              *)
(* ------------------------------------------------------------------ *)
NoPutGetter ==
    [isNil |-> TRUE, tag |-> 0, batch |-> "", pin |-> FALSE, redundancyLevel |-> ""]

\* one call a PutGetter makes on its api, with the arguments it passes
ApiCall(op, address, tag, ch, stamp, redundancyLevel, pin) ==
    [op |-> op, address |-> address, tag |-> tag, ch |-> ch, stamp |-> stamp,
     redundancyLevel |-> redundancyLevel, pin |-> pin]

\* NewPutGetter(api, batch, redundancyLevel, pin): resp is the node's answer
\* to the CreateTag request
NewPutGetterKeepsGoing(c, batch, redundancyLevel, pin, resp) ==
    LET out == CreateTag(c, ZeroAddress, resp) IN
    [p |-> [isNil |-> FALSE, tag |-> out.ret.val, batch |-> batch, pin |-> pin,
            redundancyLevel |-> redundancyLevel],
     err |-> Nil, panic |-> out.ret.panic,
     api |-> <<ApiCall("CreateTag", ZeroAddress, 0, NoChunk, "", "", FALSE)>>,
     out |-> out]

NewPutGetter(c, batch, redundancyLevel, pin, resp) ==
    LET out == CreateTag(c, ZeroAddress, resp)
        api == <<ApiCall("CreateTag", ZeroAddress, 0, NoChunk, "", "", FALSE)>>
    IN IF out.ret.panic \/ ~out.ret.err.nil
       THEN [p |-> NoPutGetter, err |-> out.ret.err, panic |-> out.ret.panic,
             api |-> api, out |-> out]
       ELSE [p |-> [isNil |-> FALSE, tag |-> out.ret.val, batch |-> batch, pin |-> pin,
                    redundancyLevel |-> redundancyLevel],
             err |-> Nil, panic |-> FALSE, api |-> api, out |-> out]

\* PutGetter.Get
Get(p, c, address, resp) ==
    LET out == DownloadChunk(c, address, resp) IN
    [ch |-> out.ret.val, err |-> out.ret.err, panic |-> out.ret.panic,
     api |-> <<ApiCall("DownloadChunk", address, 0, NoChunk, "", "", FALSE)>>,
     out |-> out]

\* PutGetter.Put
Put(p, c, ch, resp) ==
    LET out == UploadChunk(c, p.tag, ch, p.batch, p.redundancyLevel, p.pin, resp) IN
    [ch |-> NoChunk, err |-> out.ret.err, panic |-> out.ret.panic,
     api |-> <<ApiCall("UploadChunk", ZeroAddress, p.tag, ch, p.batch,
                       p.redundancyLevel, p.pin)>>,
     out |-> out]

(* ------------------------------------------------------------------ *)
(* The remote node: a content-addressed chunk store with pins and     *)
(* tags, which may also fail to answer or answer with an error        *)
(* ------------------------------------------------------------------ *)
\* the network's digest of a chunk's data
Digest(data) == CASE data = "d1" -> AddrA [] data = "d2" -> AddrB [] OTHER -> EmptyAddress

Chunks == [address : {AddrA, AddrB}, data : Datas]

RawBody(text) == Body(text, "invalid", {})
ReferenceBody(a) ==
    Body("{\"reference\":\"" \o AddrString(a) \o "\"}", "object",
         {JField("reference", "string", AddrString(a), 0)})
UidBody(n) ==
    Body("{\"uid\":" \o ToString(n) \o "}", "object", {JField("uid", "number", "", n)})
Answer(status, body) ==
    [transport |-> TRUE, status |-> status, body |-> body, readErr |-> FALSE, header |-> {}]

\* the address a request path ends in
AddressIn(rq, prefix) ==
    IF \E a \in Addresses : rq.url = url \o prefix \o AddrString(a)
    THEN CHOOSE a \in Addresses : rq.url = url \o prefix \o AddrString(a)
    ELSE ZeroAddress

\* the node's handling of one request: its state after, and its answer
Handle(n, rq) ==
    IF rq.method = "POST" /\ rq.url = url \o chunkUploadDownloadUrl
    THEN IF HeaderGet(rq.header, SwarmPostageBatchId) = ""
         THEN [node |-> n, resp |-> Answer(400, BodyError)]
         ELSE [node |-> [n EXCEPT
                   !.chunks = @ \cup {NewChunk(Digest(rq.body), rq.body)},
                   !.pins = IF HeaderGet(rq.header, swarmPinHeader) = "true"
                            THEN @ \cup {Digest(rq.body)} ELSE @],
               resp |-> Answer(201, ReferenceBody(Digest(rq.body)))]
    ELSE IF rq.method = "GET"
    THEN LET a == AddressIn(rq, chunkUploadDownloadUrl \o "/") IN
         IF \E ch \in n.chunks : ch.address = a
         THEN [node |-> n,
               resp |-> Answer(200, RawBody((CHOOSE ch \in n.chunks : ch.address = a).data))]
         ELSE [node |-> n, resp |-> Answer(404, BodyError)]
    ELSE IF rq.method = "DELETE"
    THEN LET a == AddressIn(rq, pinsUrl) IN
         IF a \in n.pins
         THEN [node |-> [n EXCEPT !.pins = @ \ {a}], resp |-> Answer(200, RawBody(""))]
         ELSE [node |-> n, resp |-> Answer(404, BodyError)]
    ELSE [node |-> [n EXCEPT !.tags = @ + 1], resp |-> Answer(201, UidBody(n.tags + 1))]

\* how an exchange can go wrong: the request never arrives, the answer is
\* lost on the way back, or the node answers with an error status
Faults == {"none", "refused", "lost", "500"}

Serve(n, rq, fault) ==
    CASE fault = "none" -> Handle(n, rq)
      [] fault = "refused" -> [node |-> n, resp |-> NoResponse]
      [] fault = "lost" -> [node |-> Handle(n, rq).node, resp |-> NoResponse]
      [] fault = "500" -> [node |-> n, resp |-> Answer(500, BodyText)]

PgLast(op, r, fault, arg) ==
    [op |-> op, err |-> r.err, panic |-> r.panic, api |-> r.api, ch |-> r.ch,
     fault |-> fault, arg |-> arg]

NetInit ==
    /\ node = [chunks |-> {}, pins |-> {}, tags |-> 0]
    /\ pg = NoPutGetter
    /\ pgBound = NoPutGetter
    /\ putOk = {}
    /\ pgLast = [op |-> "none", err |-> Nil, panic |-> FALSE, api |-> <<>>, ch |-> NoChunk,
                 fault |-> "none", arg |-> NoChunk]
    /\ pgOps = 0

NetFrame == UNCHANGED <<tarVars, client, concVars>>

NetNewPutGetter ==
    /\ pgOps < MaxNetOps
    /\ pg.isNil
    /\ \E batch \in Stamps, red \in Redundancies, pin \in BOOLEAN, fault \in Faults :
         LET rq == NewPutGetter(client, batch, red, pin, NoResponse).out.reqs
             ans == IF rq = <<>> THEN [node |-> node, resp |-> NoResponse]
                    ELSE Serve(node, rq[1], fault)
             r == NewPutGetter(client, batch, red, pin, ans.resp)
         IN /\ node' = ans.node
            /\ pg' = r.p
            /\ pgBound' = IF r.p.isNil THEN NoPutGetter
                          ELSE [isNil |-> FALSE, tag |-> r.out.ret.val, batch |-> batch,
                                pin |-> pin, redundancyLevel |-> red]
            /\ pgLast' = PgLast("NewPutGetter", [err |-> r.err, panic |-> r.panic, api |-> r.api,
                                                     ch |-> NoChunk], fault, NoChunk)
            /\ Returns("CreateTag", [address |-> ZeroAddress, resp |-> ans.resp], r.out)
    /\ pgOps' = pgOps + 1
    /\ UNCHANGED putOk
    /\ NetFrame

NetPut ==
    /\ pgOps < MaxNetOps
    /\ ~pg.isNil
    /\ \E ch \in Chunks, fault \in Faults :
         LET rq == Put(pg, client, ch, NoResponse).out.reqs
             ans == Serve(node, rq[1], fault)
             r == Put(pg, client, ch, ans.resp)
         IN /\ node' = ans.node
            /\ pgLast' = PgLast("Put", r, fault, ch)
            /\ putOk' = IF r.err.nil /\ ~r.panic /\ ch.address = Digest(ch.data)
                        THEN putOk \cup {ch} ELSE putOk
            /\ Returns("UploadChunk",
                       [tag |-> pg.tag, stamp |-> pg.batch,
                        redundancyLevel |-> pg.redundancyLevel, pin |-> pg.pin,
                        resp |-> ans.resp], r.out)
    /\ pgOps' = pgOps + 1
    /\ UNCHANGED <<pg, pgBound>>
    /\ NetFrame

NetGet ==
    /\ pgOps < MaxNetOps
    /\ ~pg.isNil
    /\ \E address \in {AddrA, AddrB}, fault \in Faults :
         LET rq == Get(pg, client, address, NoResponse).out.reqs
             ans == Serve(node, rq[1], fault)
             r == Get(pg, client, address, ans.resp)
         IN /\ node' = ans.node
            /\ pgLast' = PgLast("Get", r, fault, NewChunk(address, ""))
            /\ Returns("DownloadChunk", [address |-> address, resp |-> ans.resp], r.out)
    /\ pgOps' = pgOps + 1
    /\ UNCHANGED <<pg, pgBound, putOk>>
    /\ NetFrame

\* Client.DeleteReference against the node; `pinned` says whether the address
\* was pinned when the call was made
NetDeleteReference ==
    /\ pgOps < MaxNetOps
    /\ \E address \in {AddrA, AddrB}, fault \in Faults :
         LET rq == DeleteReference(client, address, NoResponse).reqs
             ans == Serve(node, rq[1], fault)
             r == DeleteReference(client, address, ans.resp)
         IN /\ node' = ans.node
            /\ Returns("DeleteReference",
                       [address |-> address, resp |-> ans.resp, fault |-> fault,
                        pinned |-> (address \in node.pins)], r)
    /\ pgLast' = [op |-> "none", err |-> Nil, panic |-> FALSE, api |-> <<>>, ch |-> NoChunk,
                  fault |-> "none", arg |-> NoChunk]
    /\ pgOps' = pgOps + 1
    /\ UNCHANGED <<pg, pgBound, putOk>>
    /\ NetFrame

NetNext ==
    \/ NetNewPutGetter
    \/ NetPut
    \/ NetGet
    \/ NetDeleteReference

(* ------------------------------------------------------------------ *)
(* Several goroutines calling one Client                              *)
(* ------------------------------------------------------------------ *)
Goroutines == 1..MaxGoroutines

\* one access to a field of the Client: a read, or a write of val; a read
\* with returnsIfTrue ends the method when the value read is true
Rd(field) == [field |-> field, write |-> FALSE, val |-> FALSE, returnsIfTrue |-> FALSE]
RdReturn(field) == [field |-> field, write |-> FALSE, val |-> FALSE, returnsIfTrue |-> TRUE]
Wr(field, val) == [field |-> field, write |-> TRUE, val |-> val, returnsIfTrue |-> FALSE]

\* the accesses CheckConnection makes, given the answers to its two probes:
\* s.url in each checkBee, then the assignment to s.isProxy and the read of
\* s.isProxy for the return value
CheckConnectionAccesses(r1, r2) ==
    IF checkBee(r1).data = "Ethereum Swarm Bee\n" THEN <<Rd("url")>>
    ELSE IF ~checkBee(r2).err.nil THEN <<Rd("url"), Rd("url")>>
    ELSE <<Rd("url"), Rd("url"), Wr("isProxy", checkBee(r2).data = "OK"), Rd("isProxy")>>

\* CreateTag and GetTag test s.isProxy, then build the URL from s.url
TagAccesses == <<RdReturn("isProxy"), Rd("url")>>

\* UploadChunk reads s.url, the defaults for an empty stamp and redundancy
\* level, and s.pin
UploadChunkAccesses(stamp, redundancyLevel) ==
    <<Rd("url")>>
    \o (IF stamp = "" THEN <<Rd("stamp")>> ELSE <<>>)
    \o (IF redundancyLevel = "" THEN <<Rd("redundancy")>> ELSE <<>>)
    \o <<Rd("pin")>>

Resting == [op |-> "none", todo |-> <<>>]

ConcInit == gor = [g \in Goroutines |-> Resting]

ConcFrame == UNCHANGED <<tarVars, call, reqs, ret, netVars>>

\* the access goroutine g makes next, if it is inside a method
Pending(g) == gor[g].op # "none" /\ gor[g].todo # <<>>
NextAccess(g) == Head(gor[g].todo)

\* two goroutines are about to access the same field, one of them writing,
\* with nothing ordering the two accesses
Races(g, h) ==
    /\ g # h
    /\ Pending(g) /\ Pending(h)
    /\ NextAccess(g).field = NextAccess(h).field
    /\ NextAccess(g).write \/ NextAccess(h).write

\* the values a read of isProxy by g can yield: the stored one, or the one
\* a racing write is storing
ReadValues(g) ==
    {client.isProxy} \cup {NextAccess(h).val : h \in {h \in Goroutines : Races(g, h)}}

Begin(g, op, todo) ==
    /\ gor' = [gor EXCEPT ![g] = [op |-> op, todo |-> todo]]
    /\ UNCHANGED client
    /\ ConcFrame

GoCheckConnection ==
    \E g \in Goroutines :
        /\ gor[g] = Resting
        /\ \E todo \in {CheckConnectionAccesses(r1, r2) :
                              r1, r2 \in ResponsesOf(ProbeBodies, {{}})} :
             Begin(g, "CheckConnection", todo)

GoCreateTag ==
    \E g \in Goroutines :
        /\ gor[g] = Resting
        /\ Begin(g, "CreateTag", TagAccesses)

GoGetTag ==
    \E g \in Goroutines :
        /\ gor[g] = Resting
        /\ Begin(g, "GetTag", TagAccesses)

GoUploadChunk ==
    \E g \in Goroutines :
        /\ gor[g] = Resting
        /\ \E stamp \in Stamps, redundancyLevel \in Redundancies :
             Begin(g, "UploadChunk", UploadChunkAccesses(stamp, redundancyLevel))

\* goroutine g makes its next access
GoAccess ==
    \E g \in Goroutines :
        /\ Pending(g)
        /\ LET a == NextAccess(g) IN
           IF a.write
           THEN /\ client' = [client EXCEPT !.isProxy = a.val]
                /\ gor' = [gor EXCEPT ![g].todo = Tail(@)]
           ELSE /\ UNCHANGED client
                /\ \E v \in (IF a.field = "isProxy" THEN ReadValues(g) ELSE {FALSE}) :
                     gor' = [gor EXCEPT ![g].todo =
                                IF a.returnsIfTrue /\ v THEN <<>> ELSE Tail(@)]
        /\ ConcFrame

\* goroutine g's method returns
GoReturn ==
    \E g \in Goroutines :
        /\ gor[g].op # "none"
        /\ gor[g].todo = <<>>
        /\ gor' = [gor EXCEPT ![g] = Resting]
        /\ UNCHANGED client
        /\ ConcFrame

ConcNext ==
    \/ GoCheckConnection
    \/ GoCreateTag
    \/ GoGetTag
    \/ GoUploadChunk
    \/ GoAccess
    \/ GoReturn

(* ------------------------------------------------------------------ *)
(* A Stream that is written and then handed to UploadBzz              *)
(* ------------------------------------------------------------------ *)
\* the answers an archive upload gets: none, a reference, a rejection
UploadAnswers ==
    {NoResponse, Answer(201, BodyRef), Answer(500, BodyText)}

\* Client.UploadBzz(ts, ...): it calls ts.Output() and posts the buffer
TarUploadBzz ==
    /\ tarOps < MaxOps
    /\ \E resp \in UploadAnswers : \E sent \in SentCounts(ts, resp) :
         /\ Returns("UploadBzz",
                    [stamp |-> "", redundancyLevel |-> "", pin |-> FALSE,
                     resp |-> resp, before |-> Output(ts), sent |-> sent],
                    UploadBzz(client, ts, "", "", FALSE, resp))
         /\ ts' = Drain(ts, sent)
         /\ tarLast' = TarLast("Output", Nil, FALSE, FALSE, ts, Drain(ts, sent))
    /\ tarOps' = tarOps + 1
    /\ UNCHANGED <<tarRun, tarItems, tarAllOk, tarEnded, client, netVars, concVars>>

BzzNext ==
    \/ TarBeginFile
    \/ TarAppendFile
    \/ TarEndFile
    \/ TarEnd
    \/ TarWriteItem
    \/ TarUploadBzz

Init == TarInit /\ ClientInit /\ NetInit /\ ConcInit

\* a Stream driven by one caller; the Client is not used
InitTar ==
    /\ Init
    /\ client = NewBeeClient("", "", FALSE)

SpecTar == InitTar /\ [][TarNext]_vars

\* Client calls, each answered by a node that may answer anything
SpecClient == Init /\ [][ClientNext]_vars

\* a PutGetter and unpin calls against a node that stores what it accepts
\* a Stream written and uploaded with UploadBzz
SpecBzz == InitTar /\ [][BzzNext]_vars

\* goroutines calling the methods of one Client, access by access
SpecConc == Init /\ [][ConcNext]_vars

InitNet == Init /\ client.redundancy = "" /\ ~client.pin
SpecNet == InitNet /\ [][NetNext]_vars


(* ------------------------------------------------------------------ *)
(* Claims                                                             *)
(* ------------------------------------------------------------------ *)
UploadOps ==
    {"UploadSOC", "UploadChunk", "UploadBlob", "UploadFileBzz", "UploadBzz",
     "CreateFeedManifest"}
AsksPin(rq) == HeaderGet(rq.header, swarmPinHeader) = "true"

\* C1: in every upload operation the request asks for pinning exactly when
\* the per-call pin argument is true or the client was built with
\* WithPinning(true).
C1_PinStickyTrue ==
    call.op \in UploadOps =>
        (AsksPin(reqs[1]) <=> (call.args.pin \/ client.pin))

\* C2: against a gateway-proxy, CreateTag returns UID 0 and GetTag returns
\* (0,0,0), both with no error and without issuing an HTTP request.
C2_ProxyTagsNeutral ==
    client.isProxy =>
        /\ call.op = "CreateTag" =>
               reqs = <<>> /\ ~ret.panic /\ ret.err = Nil /\ ret.val = 0
        /\ call.op = "GetTag" =>
               reqs = <<>> /\ ~ret.panic /\ ret.err = Nil /\ ret.val = TagCounts(0, 0, 0)

\* C2 witness: a GetTag of a nonzero UID on a client that a CheckConnection
\* has classified as gateway-proxy
C2_Witness ==
    client.isProxy /\ call.op = "GetTag" /\ call.args.tag = 7 /\ call.args.resp.transport

\* C3: every client operation ends by returning a result or an error; none
\* aborts with a runtime fault, whatever status and body the node sends.
C3_NoRuntimeFault == ~ret.panic

\* the statuses each operation takes for success
SuccessSet(op) ==
    CASE op \in {"UploadSOC", "UploadChunk"} -> {201}
      [] op \in {"DownloadChunk", "DownloadBlob", "DownloadBzz", "DownloadFileBzz"} -> {200}
      [] op = "DeleteReference" -> {200, 404}
      [] OTHER -> {200, 201}

\* a body that decodes as a {code, message} payload
DecodesAsBeeError(body) ==
    body.json = "object" /\ FieldOK(body, "code", "number") /\ FieldOK(body, "message", "string")

\* the call got an answer from the node, with a readable body
Answered ==
    /\ call.op \notin {"idle", "CheckConnection"}
    /\ Len(reqs) = 1
    /\ call.args.resp.transport
    /\ ~call.args.resp.readErr

\* C4: for every client operation, on a non-success status the returned
\* error's message is the node's `message` field when the body decodes as a
\* {code, message} payload, and the raw body text otherwise.
C4_ErrorMessage ==
    (Answered /\ call.args.resp.status \notin SuccessSet(call.op)) =>
        /\ ~ret.panic
        /\ ~ret.err.nil
        /\ ret.err.msg = IF DecodesAsBeeError(call.args.resp.body)
                         THEN StrField(call.args.resp.body, "message")
                         ELSE call.args.resp.body.text

\* C5: WriteItem closes item.File on every return path, and returns an error
\* whenever item.File is nil.
C5_FileAlwaysClosed ==
    tarLast.op = "WriteItem" =>
        /\ tarLast.fileGiven => tarLast.fileClosed
        /\ ~tarLast.fileGiven => ~tarLast.err.nil

\* an item that tar writes as a directory entry although it declares payload
DirWithData(it) == HasSuffixSlash(it.Path) /\ it.Size > 0

\* every call of the run returned nil and, once End has been called, the
\* archive reads back as the items written, in order, with their sizes
RunYieldsArchive ==
    /\ tarAllOk
    /\ tarRun = "ended" =>
           ReadArchive(Output(ts)) = [ok |-> TRUE, members |-> tarItems]

C7_NoWriteAfterEnd ==
    tarLast.afterEnd =>
        /\ tarLast.op \in {"BeginFile", "AppendFile", "WriteItem"} =>
               ~tarLast.err.nil /\ ~tarLast.bufChanged
        /\ tarLast.op = "End" => ~tarLast.bufChanged

\* C7 witness: a WriteItem that carries a stream, made after End
C7_Witness ==
    tarLast.afterEnd /\ tarLast.op = "WriteItem" /\ tarLast.fileGiven

\* C8: NewPutGetter calls CreateTag(ZeroAddress) exactly once, and when that
\* call fails it returns the error and no adapter; every Put makes exactly one
\* UploadChunk call, with the tag CreateTag returned and the stamp, redundancy
\* level and pin flag given at construction, which never change afterwards.
C8_BoundConfiguration ==
    /\ pgLast.op = "NewPutGetter" =>
         /\ pgLast.api = <<ApiCall("CreateTag", ZeroAddress, 0, NoChunk, "", "", FALSE)>>
         /\ Len(reqs) <= 1
         /\ (~ret.err.nil => pg.isNil /\ pgLast.err = ret.err)
         /\ (ret.err.nil => ~pg.isNil /\ pgLast.err.nil /\ pg.tag = ret.val)
    /\ pgLast.op = "Put" =>
         pgLast.api = <<ApiCall("UploadChunk", ZeroAddress, pgBound.tag, pgLast.arg,
                                pgBound.batch, pgBound.redundancyLevel, pgBound.pin)>>
    /\ ~pg.isNil => pg = pgBound

\* a Put through an adapter built with a stamp, a redundancy level and pinning
C8_Witness ==
    /\ pgLast.op = "Put"
    /\ pgLast.err.nil
    /\ pgBound.tag > 0
    /\ pgBound.batch = "s1"
    /\ pgBound.redundancyLevel = "r1"
    /\ pgBound.pin

\* C9: once Put has stored a chunk whose address is the digest of its data, a
\* Get of that address which the node answers returns no error and the chunk
\* with that address and the same data, whatever Puts and Gets came between.
C9_PutThenGet ==
    (pgLast.op = "Get" /\ pgLast.fault = "none") =>
        \A ch \in putOk :
            ch.address = pgLast.arg.address => pgLast.err.nil /\ pgLast.ch = ch

\* two chunks were put, and a Get returned one of them
C9_Witness ==
    /\ pgLast.op = "Get"
    /\ pgLast.fault = "none"
    /\ Cardinality(putOk) = 2
    /\ pgLast.ch \in putOk

\* C10: DeleteReference returns no error exactly when the node answers 200 or
\* 404; so against a node that answers 200 for a pinned address and 404 for
\* one that is not, every unpin it answers succeeds, pinned or not.
C10_UnpinIdempotent ==
    call.op = "DeleteReference" =>
        /\ ~ret.panic
        /\ call.args.resp.transport =>
             (ret.err.nil <=> call.args.resp.status \in {200, 404})
        /\ call.args.fault = "none" => ret.err.nil

\* an unpin of an address that a Put pinned and an earlier unpin released
C10_Witness ==
    /\ call.op = "DeleteReference"
    /\ call.args.fault = "none"
    /\ ~call.args.pinned
    /\ call.args.resp.status = 404
    /\ ret.err.nil
    /\ pgBound.pin
    /\ \E ch \in putOk : ch.address = call.args.address
    /\ pgOps = 4

\* C11: concurrent calls never race on Client state: no two goroutines are
\* ever about to access the same Client field with one of them writing it.
C11_NoDataRace == \A g, h \in Goroutines : ~Races(g, h)

Sent(name) == HeaderGet(reqs[1].header, name)
OrDefault(arg, default) == IF arg = "" THEN default ELSE arg

\* C13: in UploadSOC, UploadChunk, UploadBlob, UploadFileBzz and UploadBzz
\* the stamp and redundancy-level headers, and in CreateFeedManifest the
\* stamp header, carry the per-call argument when it is non-empty and the
\* client's default when it is empty.
C13_DefaultsWhenEmpty ==
    /\ call.op \in UploadOps =>
         Sent(SwarmPostageBatchId) = OrDefault(call.args.stamp, client.stamp)
    /\ call.op \in UploadOps \ {"CreateFeedManifest"} =>
         Sent(swarmErasureCodingHeader) =
             OrDefault(call.args.redundancyLevel, client.redundancy)

\* an UploadBlob and a CreateFeedManifest that fell back to the defaults
C13_Witness ==
    /\ client.stamp = "s0"
    /\ client.redundancy = "r0"
    /\ \/ /\ call.op = "CreateFeedManifest"
          /\ call.args.stamp = ""
          /\ Sent(SwarmPostageBatchId) = "s0"
       \/ /\ call.op = "UploadBlob"
          /\ call.args.stamp = "" /\ call.args.redundancyLevel = ""
          /\ Sent(SwarmPostageBatchId) = "s0"
          /\ Sent(swarmErasureCodingHeader) = "r0"

\* C14: when a CheckConnection has returned, isProxy is true exactly when
\* that CheckConnection found a gateway-proxy: the root probe did not return
\* the bee banner and the /health probe returned OK.
C14_FlagTracksLastCheck ==
    call.op = "CheckConnection" =>
        (client.isProxy <=>
            (~call.args.banner /\ ~call.args.healthErr /\ call.args.healthOK))

\* the reference (for CreateTag the UID) a response body carries, if it
\* carries one
CarriesResult(op, body) ==
    IF op = "CreateTag"
    THEN body.json = "object" /\ JHas(body, "uid") /\ FieldOK(body, "uid", "number")
    ELSE body.json = "object" /\ JHas(body, "reference") /\ RefOK(body)
ResultIn(op, body) ==
    IF op = "CreateTag" THEN NumField(body, "uid") ELSE RefOf(body)
ZeroResult(op) == IF op = "CreateTag" THEN 0 ELSE ZeroAddress

\* C15: an upload (or CreateTag) that the node answered returns no error
\* only for a status in its success set, where it returns the reference (or
\* UID) the body carries; for every other status it returns the zero address
\* (UID 0) and a non-nil error.
C15_SuccessByStatus ==
    (call.op \in UploadOps \cup {"CreateTag"} /\ Answered) =>
        LET status == call.args.resp.status
            body == call.args.resp.body
        IN /\ (~ret.panic /\ ret.err.nil) => status \in SuccessSet(call.op)
           /\ (status \in SuccessSet(call.op) /\ CarriesResult(call.op, body)) =>
                  ~ret.panic /\ ret.err.nil /\ ret.val = ResultIn(call.op, body)
           /\ status \notin SuccessSet(call.op) =>
                  ~ret.panic /\ ~ret.err.nil /\ ret.val = ZeroResult(call.op)

C17_FailedWriteItemNoEffect ==
    [][(tarOps' = tarOps + 1 /\ tarLast'.op = "WriteItem" /\ ~tarLast'.err.nil)
           => ts' = ts]_vars

\* C18: when a client operation that got a response returns, the response
\* body has been closed, except that DownloadBlob and DownloadFileBzz leave
\* it open when, and only when, they return it as their successful result.
C18_BodyClosedOnReturn ==
    (call # Idle /\ ret.body # "none") =>
        (ret.body = "open" <=>
            /\ call.op \in {"DownloadBlob", "DownloadFileBzz"}
            /\ ~ret.panic
            /\ ret.err.nil)

====
